---- MODULE Spec2Model ----
(***************************************************************************)
(* A model of src/cost_tracker_json.py: the pricing dataset cache          *)
(* (ModelCostManager.get_cost_data behind the cachetools TTL cache), the   *)
(* model name resolver (_find_best_match / get_model_data), the cost       *)
(* calculator (CostCalculator.calculate_costs), the usage ledger           *)
(* (UserCostManager) and the Filter's inlet and outlet.                    *)
(*                                                                         *)
(* Time is counted in ticks; one clock serves time.time() (file mtimes)    *)
(* and the TTL cache's timer.  File contents are named by the JSON text    *)
(* they hold ("D1", "D2", ...); json.load of a text gives the value Body   *)
(* maps it to, or raises on a truncated text ("CORRUPT").                  *)
(***************************************************************************)
EXTENDS Integers, Sequences, FiniteSets, TLC

VARIABLES
    now,        \* the clock, in ticks
    live,       \* the live cache file <sha256(url)>.json
    bkp,        \* the text of <sha256(url)>.json.bkp, "NONE" when absent
    mem,        \* the entry of the module-level TTLCache for get_cost_data(self)
    call,       \* what the last sequential get_cost_data call saw and did; since is
                \* when the dataset it returned came into the TTL cache
    lock,       \* the holder of ModelCostManager.lock, "free" when released
    pc,         \* each thread's place in get_cost_data
    loc,        \* each thread's locals in get_cost_data
    memo,       \* ModelCostManager._best_match_cache
    res,        \* what the last get_model_data / calculate_costs call saw and did
    ledger,     \* the content of the usage ledger file
    led,        \* what the last update_user_cost call saw and did
    flt,        \* the fields of the Filter instance: input_tokens, start_time
    req,        \* each request's place in Filter.inlet / Filter.outlet and its locals
    wr          \* each ledger writer's place in update_user_cost and its locals

vars == <<now, live, bkp, mem, call, lock, pc, loc, memo, res, ledger, led, flt, req, wr>>

----------------------------------------------------------------------------
(* Bounds of the model *)

\* The clock stops at MaxTime ticks.
MaxTime == 4

\* Config.CACHE_TTL (432000 s), scaled to ticks.
CACHE_TTL == 2

----------------------------------------------------------------------------
(* The pricing dataset cache: files, JSON texts, the TTL cache *)

NoFile == [exists |-> FALSE, mtime |-> 0, content |-> "NONE"]

File(t, c) == [exists |-> TRUE, mtime |-> t, content |-> c]

NoEntry == [present |-> FALSE, expires |-> 0, data |-> "NONE"]

\* JSON texts a response body can parse to: two pricing mappings, an empty
\* mapping, and a JSON array (valid JSON that is not a mapping).
Mappings == {"D1", "D2", "EMPTY"}

Bodies == Mappings \cup {"LIST"}

\* json.load raises on a truncated text.
Parses(c) == c \in Bodies

\* cachetools TTLCache.__getitem__: an entry is served while timer() < expires.
MemHit(m, t) == m.present /\ t < m.expires

\* An entry that expires one tick early.
MemStoreShort(d, t) == [present |-> TRUE, expires |-> t + CACHE_TTL - 1, data |-> d]

\* cachetools cached(): the returned value is stored with expires = timer() + ttl.
MemStore(d, t) == [present |-> TRUE, expires |-> t + CACHE_TTL, data |-> d]

\* The age computed with its operands swapped.
is_cache_valid_swapped(f, t) == f.mtime - t < CACHE_TTL

\* ModelCostManager._is_cache_valid
is_cache_valid(f, t) == t - f.mtime < CACHE_TTL

\* The outcome of one get_cost_data call run without interleaving.
Outcome(lv, bk, m, raised, out, err, fetched, path) ==
    [live |-> lv, bkp |-> bk, mem |-> m, raised |-> raised, out |-> out,
     err |-> err, fetched |-> fetched, path |-> path]

\* A fallback that looks for the live file's name instead of the .bkp sibling.
FallbackChecksLive(lv, bk, m, t, e, fetched) ==
    IF lv.exists
    THEN IF Parses(lv.content)
         THEN Outcome(lv, bk, MemStore(lv.content, t), FALSE, lv.content, "none", fetched, "bkp")
         ELSE Outcome(lv, bk, m, TRUE, "NONE", "decode_error", fetched, "bkp")
    ELSE Outcome(lv, bk, m, TRUE, "NONE", e, fetched, "none")

\* Lines 163-178: the except branch.  e is the exception caught.
Fallback(lv, bk, m, t, e, fetched) ==
    IF bk # "NONE"
    THEN IF Parses(bk)
         THEN Outcome(lv, bk, MemStore(bk, t), FALSE, bk, "none", fetched, "bkp")
         ELSE Outcome(lv, bk, m, TRUE, "NONE", "decode_error", fetched, "bkp")
    ELSE Outcome(lv, bk, m, TRUE, "NONE", e, fetched, "none")

\* Lines 150-154: the live file, when there is one, is renamed to .bkp.
BackupRename(lv, bk) == IF lv.exists THEN lv.content ELSE bk

\* Lines 142-162: the try branch.  fo is what requests.get / raise_for_status /
\* response.json give ("FAIL", or the parsed body), wo whether the write of the
\* live file succeeds ("ok") or fails after truncating it ("fail").
FetchAndStore(lv, bk, m, t, fo, wo) ==
    IF fo = "FAIL"
    THEN Fallback(lv, bk, m, t, "fetch_failure", TRUE)
    ELSE LET bk2 == BackupRename(lv, bk) IN
         IF wo = "ok"
         THEN Outcome(File(t, fo), bk2, MemStore(fo, t), FALSE, fo, "none", TRUE, "net")
         ELSE Fallback(File(t, "CORRUPT"), bk2, m, t, "write_failure", TRUE)

\* Lines 132-141: the live file is read when it exists and is young.
ReadLive(lv, bk, m, t) ==
    IF Parses(lv.content)
    THEN Outcome(lv, bk, MemStore(lv.content, t), FALSE, lv.content, "none", FALSE, "disk")
    ELSE Outcome(lv, bk, m, TRUE, "NONE", "decode_error", FALSE, "disk")

\* get_cost_data with its @cached(cache=cache) wrapper, run to completion.
GetCostData(lv, bk, m, t, fo, wo) ==
    IF MemHit(m, t)
    THEN Outcome(lv, bk, m, FALSE, m.data, "none", FALSE, "mem")
    ELSE IF lv.exists /\ is_cache_valid(lv, t)
         THEN ReadLive(lv, bk, m, t)
         ELSE FetchAndStore(lv, bk, m, t, fo, wo)

FetchOutcomes == Bodies \cup {"FAIL"}

WriteOutcomes == {"ok", "fail"}

NoCall == [done |-> FALSE, at |-> 0, since |-> 0, liveBefore |-> NoFile, bkpBefore |-> "NONE",
           memHit |-> FALSE, fo |-> "FAIL", raised |-> FALSE, out |-> "NONE",
           err |-> "none", fetched |-> FALSE, path |-> "none"]

concVars == <<lock, pc, loc>>

resolverVars == <<memo, res>>

ledgerVars == <<ledger, led>>

filterVars == <<flt, req, wr>>

\* One get_cost_data call by a single caller.
get_cost_data(fo, wo) ==
    \E o \in {GetCostData(live, bkp, mem, now, fo, wo)} :
    /\ live' = o.live
    /\ bkp' = o.bkp
    /\ mem' = o.mem
    /\ call' = [done |-> TRUE, at |-> now,
                since |-> IF MemHit(mem, now) THEN call.since ELSE now, liveBefore |-> live, bkpBefore |-> bkp,
                memHit |-> MemHit(mem, now), fo |-> fo, raised |-> o.raised,
                out |-> o.out, err |-> o.err, fetched |-> o.fetched, path |-> o.path]
    /\ UNCHANGED <<now, concVars, resolverVars, ledgerVars, filterVars>>

\* Time passes.
Tick ==
    /\ now < MaxTime
    /\ now' = now + 1
    /\ UNCHANGED <<live, bkp, mem, call, concVars, resolverVars, ledgerVars, filterVars>>

----------------------------------------------------------------------------
(* get_cost_data step by step, for concurrent callers of one ModelCostManager *)

Threads == {"t1", "t2"}

\* data: the parsed response; err: the exception caught at line 163; out: the
\* value returned; raised: the call ended by raising; fetched: requests.get
\* was called; fetchFailed: it (or raise_for_status, or response.json) raised;
\* fh: the name under which the file opened for writing is now linked.
NoLocals == [data |-> "NONE", err |-> "none", out |-> "NONE", raised |-> FALSE,
             fetched |-> FALSE, fetchFailed |-> FALSE, fh |-> "none"]

Raise(t, e) ==
    /\ loc' = [loc EXCEPT ![t].raised = TRUE, ![t].err = e, ![t].fh = "none"]
    /\ pc' = [pc EXCEPT ![t] = "idle"]

seqVars == <<call, resolverVars, ledgerVars, filterVars>>

\* Line 115: the cached() wrapper looks the key up; a hit returns at once.
Call(t) ==
    /\ pc[t] = "idle"
    /\ IF MemHit(mem, now)
       THEN /\ loc' = [loc EXCEPT ![t] = [NoLocals EXCEPT !.out = mem.data]]
            /\ pc' = pc
       ELSE /\ loc' = [loc EXCEPT ![t] = NoLocals]
            /\ pc' = [pc EXCEPT ![t] = "acquire1"]
    /\ UNCHANGED <<now, live, bkp, mem, lock, seqVars>>

\* Lines 132, 156, 167: with self.lock.
Acquire(t) ==
    /\ pc[t] \in {"acquire1", "acquire2", "acquire3"}
    /\ lock = "free"
    /\ lock' = t
    /\ pc' = [pc EXCEPT ![t] = CASE pc[t] = "acquire1" -> "exists"
                                 [] pc[t] = "acquire2" -> "write_open"
                                 [] OTHER -> "fallback"]
    /\ UNCHANGED <<now, live, bkp, mem, loc, seqVars>>

\* Line 133: os.path.exists(self.cache_file_path).
CheckExists(t) ==
    /\ pc[t] = "exists"
    /\ IF live.exists
       THEN /\ pc' = [pc EXCEPT ![t] = "getmtime"]
            /\ lock' = lock
       ELSE /\ pc' = [pc EXCEPT ![t] = "fetch"]
            /\ lock' = "free"
    /\ UNCHANGED <<now, live, bkp, mem, loc, seqVars>>

\* Lines 111-113, 133: os.path.getmtime raises when the file is gone.
CheckValid(t) ==
    /\ pc[t] = "getmtime"
    /\ IF ~live.exists
       THEN /\ Raise(t, "file_not_found")
            /\ lock' = "free"
       ELSE /\ loc' = loc
            /\ IF is_cache_valid(live, now)
               THEN /\ pc' = [pc EXCEPT ![t] = "open"]
                    /\ lock' = lock
               ELSE /\ pc' = [pc EXCEPT ![t] = "fetch"]
                    /\ lock' = "free"
    /\ UNCHANGED <<now, live, bkp, mem, seqVars>>

\* Lines 136-141: open raises when the file is gone, json.load on a truncated text.
OpenLive(t) ==
    /\ pc[t] = "open"
    /\ IF ~live.exists
       THEN Raise(t, "file_not_found")
       ELSE IF Parses(live.content)
            THEN /\ loc' = [loc EXCEPT ![t].out = live.content]
                 /\ pc' = [pc EXCEPT ![t] = "store"]
            ELSE Raise(t, "decode_error")
    /\ lock' = "free"
    /\ UNCHANGED <<now, live, bkp, mem, seqVars>>

\* Lines 145-147: requests.get, raise_for_status, response.json.
Fetch(t, fo) ==
    /\ pc[t] = "fetch"
    /\ IF fo = "FAIL"
       THEN /\ loc' = [loc EXCEPT ![t].fetched = TRUE, ![t].fetchFailed = TRUE,
                                  ![t].err = "fetch_failure"]
            /\ pc' = [pc EXCEPT ![t] = "acquire3"]
       ELSE /\ loc' = [loc EXCEPT ![t].fetched = TRUE, ![t].data = fo]
            /\ pc' = [pc EXCEPT ![t] = "backup"]
    /\ UNCHANGED <<now, live, bkp, mem, lock, seqVars>>

\* Lines 150-154: the rename, outside the lock.  A file another thread has open
\* for writing keeps being written under its new name.
Backup(t) ==
    /\ pc[t] = "backup"
    /\ bkp' = BackupRename(live, bkp)
    /\ live' = NoFile
    /\ loc' = [u \in Threads |->
                 IF live.exists /\ loc[u].fh = "live"
                 THEN [loc[u] EXCEPT !.fh = "bkp"]
                 ELSE IF live.exists /\ loc[u].fh = "bkp"
                      THEN [loc[u] EXCEPT !.fh = "unlinked"]
                      ELSE loc[u]]
    /\ pc' = [pc EXCEPT ![t] = "acquire2"]
    /\ UNCHANGED <<now, mem, lock, seqVars>>

\* Line 157: open(..., "w") creates or truncates the live file.
WriteOpen(t) ==
    /\ pc[t] = "write_open"
    /\ live' = File(now, "CORRUPT")
    /\ loc' = [loc EXCEPT ![t].fh = "live"]
    /\ pc' = [pc EXCEPT ![t] = "write_dump"]
    /\ UNCHANGED <<now, bkp, mem, lock, seqVars>>

\* Lines 160-162: json.dump into the open file, close, release, return data.
WriteDump(t, wo) ==
    /\ pc[t] = "write_dump"
    /\ LET c == IF wo = "ok" THEN loc[t].data ELSE "CORRUPT" IN
       /\ live' = IF loc[t].fh = "live" THEN File(now, c) ELSE live
       /\ bkp' = IF loc[t].fh = "bkp" THEN c ELSE bkp
    /\ IF wo = "ok"
       THEN /\ loc' = [loc EXCEPT ![t].out = loc[t].data, ![t].fh = "none"]
            /\ pc' = [pc EXCEPT ![t] = "store"]
       ELSE /\ loc' = [loc EXCEPT ![t].err = "write_failure", ![t].fh = "none"]
            /\ pc' = [pc EXCEPT ![t] = "acquire3"]
    /\ lock' = "free"
    /\ UNCHANGED <<now, mem, seqVars>>

\* Lines 167-178: the backup is read under the lock, or the exception re-raised.
FallbackStep(t) ==
    /\ pc[t] = "fallback"
    /\ IF bkp # "NONE"
       THEN IF Parses(bkp)
            THEN /\ loc' = [loc EXCEPT ![t].out = bkp]
                 /\ pc' = [pc EXCEPT ![t] = "store"]
            ELSE Raise(t, "decode_error")
       ELSE Raise(t, loc[t].err)
    /\ lock' = "free"
    /\ UNCHANGED <<now, live, bkp, mem, seqVars>>

\* Line 115: the cached() wrapper stores the value returned.
Store(t) ==
    /\ pc[t] = "store"
    /\ mem' = MemStore(loc[t].out, now)
    /\ pc' = [pc EXCEPT ![t] = "idle"]
    /\ UNCHANGED <<now, live, bkp, lock, loc, seqVars>>

\* Line 145: requests.get(self.url) is given no timeout, so it waits for the
\* response as long as the connection stays open; from a server that never
\* answers the call does not come back.
FetchNoResponse(t) ==
    /\ pc[t] = "fetch"
    /\ loc' = [loc EXCEPT ![t].fetched = TRUE]
    /\ pc' = [pc EXCEPT ![t] = "recv"]
    /\ UNCHANGED <<now, live, bkp, mem, lock, seqVars>>

TickConc ==
    /\ now < MaxTime
    /\ now' = now + 1
    /\ UNCHANGED <<live, bkp, mem, lock, pc, loc, seqVars>>

----------------------------------------------------------------------------
(* Strings: sequences of one-character strings *)

\* The letters that have two cases, as <<lower, upper>>.
CasePairs ==
    {<<"a", "A">>, <<"b", "B">>, <<"d", "D">>, <<"e", "E">>, <<"g", "G">>,
     <<"i", "I">>, <<"l", "L">>, <<"m", "M">>, <<"n", "N">>, <<"o", "O">>,
     <<"p", "P">>, <<"t", "T">>, <<"u", "U">>, <<"z", "Z">>}

LowerChar(c) ==
    IF \E p \in CasePairs : p[2] = c
    THEN (CHOOSE p \in CasePairs : p[2] = c)[1]
    ELSE c

UpperChar(c) ==
    IF \E p \in CasePairs : p[1] = c
    THEN (CHOOSE p \in CasePairs : p[1] = c)[2]
    ELSE c

\* str.lower
Lower(s) == [i \in 1..Len(s) |-> LowerChar(s[i])]

\* str.upper
Upper(s) == [i \in 1..Len(s) |-> UpperChar(s[i])]

Min2(a, b) == IF a <= b THEN a ELSE b

Max2(a, b) == IF a >= b THEN a ELSE b

\* Lines 189-194: row i of dp from row i - 1; acc holds dp[i][0..j-1].
RECURSIVE LevRow(_, _, _, _)
LevRow(prev, c, s2, acc) ==
    LET j == Len(acc) IN
    IF j > Len(s2)
    THEN acc
    ELSE LET cost == IF c = s2[j] THEN 0 ELSE 1
             cell == Min2(Min2(prev[j + 1] + 1, acc[j] + 1), prev[j] + cost)
         IN LevRow(prev, c, s2, Append(acc, cell))

\* Lines 184-196: the rows of dp one after the other; row[j + 1] is dp[i][j].
RECURSIVE LevRows(_, _, _, _)
LevRows(s1, s2, i, row) ==
    IF i > Len(s1) \/ Len(row) = 0
    THEN row
    ELSE LevRows(s1, s2, i + 1, LevRow(row, s1[i], s2, <<i>>))

\* ModelCostManager.levenshtein_distance
levenshtein_distance(s1, s2) ==
    LevRows(s1, s2, 1, [j \in 1..(Len(s2) + 1) |-> j - 1])[Len(s2) + 1]

\* The longest common subsequence, row by row, as rapidfuzz's Indel distance
\* computes it: indel(s1, s2) = len(s1) + len(s2) - 2 * lcs(s1, s2).
RECURSIVE LcsRow(_, _, _, _)
LcsRow(prev, c, s2, acc) ==
    LET j == Len(acc) IN
    IF j > Len(s2)
    THEN acc
    ELSE LET cell == IF c = s2[j]
                     THEN prev[j] + 1
                     ELSE Max2(prev[j + 1], acc[j])
         IN LcsRow(prev, c, s2, Append(acc, cell))

RECURSIVE LcsRows(_, _, _, _)
LcsRows(s1, s2, i, row) ==
    IF i > Len(s1) \/ Len(row) = 0
    THEN row
    ELSE LcsRows(s1, s2, i + 1, LcsRow(row, s1[i], s2, <<0>>))

Lcs(s1, s2) == LcsRows(s1, s2, 1, [j \in 1..(Len(s2) + 1) |-> 0])[Len(s2) + 1]

\* A score of rapidfuzz, 100 * n / d, kept as the fraction n / d.
Score(n, d) == [n |-> n, d |-> d]

\* score >= k, for a threshold k on the 0..100 scale.
ScoreAtLeast(sc, k) == 100 * sc.n >= k * sc.d

ScoreGreater(a, b) == a.n * b.d > b.n * a.d

\* rapidfuzz.fuzz.ratio: 100 * (1 - indel / (len1 + len2)), 100 for two empty strings.
fuzz_ratio(s1, s2) ==
    IF Len(s1) + Len(s2) = 0
    THEN Score(1, 1)
    ELSE Score(2 * Lcs(s1, s2), Len(s1) + Len(s2))

\* The windows of the longer string rapidfuzz aligns the shorter one with:
\* its prefixes shorter than the needle, every substring of the needle's
\* length, and its suffixes shorter than the needle.
Windows(needle, hay) ==
    LET m == Len(needle)
        n == Len(hay)
    IN {SubSeq(hay, 1, i) : i \in 1..(m - 1)}
       \cup {SubSeq(hay, i, i + m - 1) : i \in 1..(n - m + 1)}
       \cup {SubSeq(hay, i, n) : i \in (n - m + 2)..n}

\* The best fuzz.ratio of the needle against a window of the haystack.
PartialImpl(needle, hay) ==
    LET scores == {fuzz_ratio(needle, w) : w \in Windows(needle, hay)} IN
    IF scores = {}
    THEN Score(0, 1)
    ELSE CHOOSE b \in scores : \A o \in scores : ~ScoreGreater(o, b)

\* rapidfuzz.fuzz.partial_ratio: the shorter string is the needle; strings of
\* equal length are tried both ways; 100 for two empty strings, 0 when one is.
fuzz_partial_ratio(s1, s2) ==
    IF Len(s1) = 0 /\ Len(s2) = 0
    THEN Score(1, 1)
    ELSE IF Len(s1) = 0 \/ Len(s2) = 0
         THEN Score(0, 1)
         ELSE IF Len(s1) < Len(s2)
              THEN PartialImpl(s1, s2)
              ELSE IF Len(s2) < Len(s1)
                   THEN PartialImpl(s2, s1)
                   ELSE LET a == PartialImpl(s1, s2)
                            b == PartialImpl(s2, s1)
                        IN IF ScoreGreater(b, a) THEN b ELSE a

\* A round() that takes a tie to the integer above.
PyRoundHalfUp(len, tenths) == (len * tenths + 5) \div 10

\* Python's round() of the float len * ratio, for ratio = tenths / 10: to the
\* nearest integer, a tie (which the float product hits exactly) to the even one.
PyRound(len, tenths) ==
    LET k == len * tenths
        q == k \div 10
        r == k % 10
    IN IF r < 5 THEN q
       ELSE IF r > 5 THEN q + 1
            ELSE IF q % 2 = 0 THEN q ELSE q + 1

----------------------------------------------------------------------------
(* The model name resolver *)

\* A pricing dataset: the key / record pairs of a JSON object, in file order.
Entry(k, r) == [key |-> k, rec |-> r]

\* Line 201: {key.lower(): key for key in json_data.keys()}: a lower-cased key
\* keeps the place of its first occurrence and the original of its last.
RECURSIVE KeysLowerFrom(_, _, _)
KeysLowerFrom(d, i, acc) ==
    IF i > Len(d)
    THEN acc
    ELSE LET lk == Lower(d[i].key)
             at == {j \in 1..Len(acc) : acc[j].lower = lk}
         IN KeysLowerFrom(d, i + 1,
                IF at = {}
                THEN Append(acc, [lower |-> lk, orig |-> d[i].key])
                ELSE [j \in 1..Len(acc) |->
                        IF j \in at THEN [acc[j] EXCEPT !.orig = d[i].key] ELSE acc[j]])

KeysLower(d) == KeysLowerFrom(d, 1, <<>>)

\* max(pairs, key=lambda x: x[0]): the first index with the greatest score.
FirstMax(scores) ==
    CHOOSE i \in 1..Len(scores) :
        /\ \A j \in 1..Len(scores) : ~ScoreGreater(scores[j], scores[i])
        /\ \A j \in 1..(i - 1) : ScoreGreater(scores[i], scores[j])

\* What _find_best_match gives: the key and the stage that returned it; early
\* marks the return from inside the Levenshtein loop (line 231).
Found(k, stage) == [kind |-> "key", key |-> k, stage |-> stage, early |-> FALSE]

FoundEarly(k) == [kind |-> "key", key |-> k, stage |-> 3, early |-> TRUE]

NotFound == [kind |-> "none", key |-> <<>>, stage |-> 0, early |-> FALSE]

\* max() of an empty list raises ValueError.
ValueError == [kind |-> "error", key |-> <<>>, stage |-> 2, early |-> FALSE]

\* An early termination that also takes a distance of 2.
AlmostExactWide(dist) == dist < 3

\* Line 230: early termination for an (almost) exact match.
AlmostExact(dist) == dist < 2

\* Lines 226-231: the loop over zip(keys_lower.values(), distances).  It gives
\* the key returned early, or the minimum distance and its first key.
RECURSIVE Stage3Loop(_, _, _, _, _)
Stage3Loop(kl, q, i, min_distance, best_match) ==
    IF i > Len(kl)
    THEN [early |-> FALSE, min |-> min_distance, key |-> best_match]
    ELSE LET dist == levenshtein_distance(q, kl[i].lower)
             better == min_distance < 0 \/ dist < min_distance
             m2 == IF better THEN dist ELSE min_distance
             b2 == IF better THEN kl[i].orig ELSE best_match
         IN IF AlmostExact(dist)
            THEN [early |-> TRUE, min |-> m2, key |-> kl[i].orig]
            ELSE Stage3Loop(kl, q, i + 1, m2, b2)

\* Line 215.
RatioThreshold == 79

\* Line 252.
PartialThreshold == 80

\* Line 219: 0.6 if len(query) < 15 else 0.3, in tenths.
ThresholdTenths(query) == IF Len(query) < 15 THEN 6 ELSE 3

\* Lines 241-255: the partial-ratio stage.
Stage4(kl, query_lower) ==
    LET ratios == [i \in 1..Len(kl) |-> fuzz_partial_ratio(kl[i].lower, query_lower)]
        best == FirstMax(ratios)
    IN IF ScoreAtLeast(ratios[best], PartialThreshold)
       THEN Found(kl[best].lower, 4)
       ELSE NotFound

\* Lines 218-239: the Levenshtein stage (a minimum of -1 stands for float("inf")).
Stage3(kl, query, query_lower) ==
    LET threshold == PyRound(Len(query), ThresholdTenths(query))
        loop == Stage3Loop(kl, query_lower, 1, -1, <<>>)
    IN IF loop.early
       THEN FoundEarly(loop.key)
       ELSE IF loop.min <= threshold
            THEN Found(loop.key, 3)
            ELSE Stage4(kl, query_lower)

\* Lines 206-216: the ratio stage.  It returns the lower-cased key.
Stage2(kl, query, query_lower) ==
    LET ratios == [i \in 1..Len(kl) |-> fuzz_ratio(kl[i].lower, query_lower)]
        best == FirstMax(ratios)
    IN IF ScoreAtLeast(ratios[best], RatioThreshold)
       THEN Found(kl[best].lower, 2)
       ELSE Stage3(kl, query, query_lower)

\* ModelCostManager._find_best_match
find_best_match(query, json_data) ==
    LET query_lower == Lower(query)
        kl == KeysLower(json_data)
        exact == {i \in 1..Len(kl) : kl[i].lower = query_lower}
    IN IF exact # {}
       THEN Found(kl[CHOOSE i \in exact : TRUE].orig, 1)
       ELSE IF Len(kl) = 0
            THEN ValueError
            ELSE Stage2(kl, query, query_lower)

----------------------------------------------------------------------------
(* The datasets and the names queried *)

GPT_4o == <<"G", "P", "T", "-", "4", "o">>

gpt_4o_mini == <<"g", "p", "t", "-", "4", "o", "-", "m", "i", "n", "i">>

gpt_4o_min == <<"g", "p", "t", "-", "4", "o", "-", "m", "i", "n">>

GPT_4 == <<"G", "P", "T", "-", "4">>

zzzzzzzzzz == <<"z", "z", "z", "z", "z", "z", "z", "z", "z", "z">>

\* Pricing records; a price is a whole number of 1e-9 dollars per token.
EmptyRecord == [f \in {} |-> 0]

PriceA == [input_cost_per_token |-> 75, output_cost_per_token |-> 25]

PriceB == [input_cost_per_token |-> 15]

PriceC == [input_cost_per_token |-> 10000, output_cost_per_token |-> 20000]

\* json.load of a text that holds a mapping.  D2 is D1 after a price change
\* and the addition of a model.
Body(c) ==
    CASE c = "D1" -> <<Entry(GPT_4o, PriceA)>>
      [] c = "D2" -> <<Entry(GPT_4o, PriceB), Entry(gpt_4o_mini, PriceC)>>
      [] OTHER -> <<>>

KeysOf(c) == {Body(c)[i].key : i \in 1..Len(Body(c))}

\* dict.get(key, {})
DictGet(d, k) ==
    IF \E i \in 1..Len(d) : d[i].key = k
    THEN d[CHOOSE i \in 1..Len(d) : d[i].key = k].rec
    ELSE EmptyRecord

\* The raw names get_model_data is called with.
Queries ==
    {GPT_4o, Upper(GPT_4o), gpt_4o_mini, Upper(gpt_4o_mini), gpt_4o_min, GPT_4,
     zzzzzzzzzz}

\* _find_best_match is a function of the query and the dataset.
MatchTable == [c \in Mappings, q \in Queries |-> find_best_match(q, Body(c))]

Unset == [kind |-> "unset", key |-> <<>>]

\* What _best_match_cache keeps of a match: the key, or None.
Memoized(b) == [kind |-> b.kind, key |-> b.key]

ModelData(raised, err, data, best, ran, rec, m) ==
    [raised |-> raised, err |-> err, data |-> data, best |-> best, ran |-> ran,
     rec |-> rec, memo |-> m]

\* Lines 274-280.
RecordOf(c, best) ==
    IF best.kind = "none" THEN EmptyRecord ELSE DictGet(Body(c), best.key)

\* A get_model_data that keeps only successful matches in _best_match_cache.
GetModelDataNoNegativeCache(o, m, q) ==
    IF o.raised
    THEN ModelData(TRUE, o.err, "NONE", Unset, FALSE, EmptyRecord, m)
    ELSE IF m[q].kind # "unset"
         THEN ModelData(FALSE, "none", o.out, m[q], FALSE, RecordOf(o.out, m[q]), m)
         ELSE LET b == Memoized(MatchTable[o.out, q]) IN
              IF b.kind = "error"
              THEN ModelData(TRUE, "value_error", o.out, Unset, TRUE, EmptyRecord, m)
              ELSE ModelData(FALSE, "none", o.out, b, TRUE, RecordOf(o.out, b),
                             IF b.kind = "none" THEN m ELSE [m EXCEPT ![q] = b])

\* Lines 257-280: get_model_data after get_cost_data ended with outcome o.  A
\* dataset that is a list has neither keys() nor get().
GetModelData(o, m, q) ==
    IF o.raised
    THEN ModelData(TRUE, o.err, "NONE", Unset, FALSE, EmptyRecord, m)
    ELSE IF m[q].kind # "unset"
         THEN IF m[q].kind = "key" /\ o.out \notin Mappings
              THEN ModelData(TRUE, "attribute_error", o.out, m[q], FALSE, EmptyRecord, m)
              ELSE ModelData(FALSE, "none", o.out, m[q], FALSE, RecordOf(o.out, m[q]), m)
         ELSE IF o.out \notin Mappings
              THEN ModelData(TRUE, "attribute_error", o.out, Unset, TRUE, EmptyRecord, m)
              ELSE LET b == Memoized(MatchTable[o.out, q]) IN
                   IF b.kind = "error"
                   THEN ModelData(TRUE, "value_error", o.out, Unset, TRUE, EmptyRecord, m)
                   ELSE ModelData(FALSE, "none", o.out, b, TRUE, RecordOf(o.out, b),
                                  [m EXCEPT ![q] = b])

One == [n |-> 1, d |-> 1]

\* n counts the calls modulo 2.
NoRes == [op |-> "none", n |-> 0, q |-> <<>>, raised |-> FALSE, err |-> "none", data |-> "NONE",
          best |-> Unset, ran |-> FALSE, rec |-> EmptyRecord,
          input_tokens |-> 0, output_tokens |-> 0, compensation |-> One, total_cost |-> 0]

\* One get_model_data call by a single caller.
get_model_data(q, fo, wo) ==
    \E o \in {GetCostData(live, bkp, mem, now, fo, wo)} :
    \E r \in {GetModelData(o, memo, q)} :
       /\ live' = o.live
       /\ bkp' = o.bkp
       /\ mem' = o.mem
       /\ memo' = r.memo
       /\ res' = [NoRes EXCEPT !.op = "get_model_data", !.n = 1 - res.n, !.q = q, !.raised = r.raised,
                               !.err = r.err, !.data = r.data, !.best = r.best,
                               !.ran = r.ran, !.rec = r.rec]
       /\ UNCHANGED <<now, call, concVars, ledgerVars, filterVars>>

----------------------------------------------------------------------------
(* _find_best_match on its own *)

o1 == <<"o", "1">>

o2 == <<"o", "2">>

o3 == <<"o", "3">>

r1 == <<"r", "1">>

claude_3_sonnet ==
    <<"c", "l", "a", "u", "d", "e", "-", "3", "-", "s", "o", "n", "n", "e", "t">>

claude_instant == <<"c", "l", "a", "u", "d", "e", "-", "i", "n", "s", "t", "a", "n", "t">>

claude_3_opus == <<"c", "l", "a", "u", "d", "e", "-", "3", "-", "o", "p", "u", "s">>

claude_3_haiku == <<"c", "l", "a", "u", "d", "e", "-", "3", "-", "h", "a", "i", "k", "u">>

mistral_large_2 ==
    <<"m", "i", "s", "t", "r", "a", "l", "-", "l", "a", "r", "g", "e", "-", "2">>

pixtral_large == <<"p", "i", "x", "t", "r", "a", "l", "-", "l", "a", "r", "g", "e">>

gemini_1_5_flash ==
    <<"g", "e", "m", "i", "n", "i", "-", "1", ".", "5", "-", "f", "l", "a", "s", "h">>

gemini_1_5_pro == <<"g", "e", "m", "i", "n", "i", "-", "1", ".", "5", "-", "p", "r", "o">>

\* The datasets _find_best_match is given: D1 and D2, and mappings with the
\* keys named.
MatchDatasets == {"D1", "D2", "M3", "M4", "M5", "M6", "M7", "M8"}

MatchBody(c) ==
    CASE c = "M3" -> <<Entry(o1, PriceA), Entry(o3, PriceC)>>
      [] c = "M4" -> <<Entry(r1, PriceA), Entry(o3, PriceC)>>
      [] c = "M5" -> <<Entry(claude_instant, PriceA), Entry(pixtral_large, PriceC)>>
      [] c = "M6" -> <<Entry(claude_3_opus, PriceA), Entry(gemini_1_5_pro, PriceC)>>
      [] c = "M7" -> <<Entry(claude_3_haiku, PriceA), Entry(claude_instant, PriceC)>>
      [] c = "M8" -> <<Entry(gemini_1_5_pro, PriceA), Entry(GPT_4o, PriceB),
                       Entry(claude_instant, PriceC), Entry(o3, PriceC)>>
      [] OTHER -> Body(c)

MatchQueries ==
    Queries \cup {o2, claude_3_sonnet, mistral_large_2, gemini_1_5_flash}

\* The arguments of a call that is to be made.
MatchInput(q, c) == [NoRes EXCEPT !.op = "input", !.q = q, !.data = c]

\* One _find_best_match call on the arguments drawn.
FindBestMatch ==
    /\ res.op = "input"
    /\ res' = [res EXCEPT !.op = "find_best_match",
                          !.best = find_best_match(res.q, MatchBody(res.data))]
    /\ UNCHANGED <<now, live, bkp, mem, call, concVars, memo, ledgerVars, filterVars>>

----------------------------------------------------------------------------
(* The cost calculator *)

\* dict.get(field, 0)
Price(rec, field) == IF field \in DOMAIN rec THEN rec[field] ELSE 0

\* quantize(Decimal("0.00000001"), rounding=ROUND_DOWN) of n / d.
QuantizeDown(n, d) == n \div (10 * d)

\* Lines 306-308: quantize(Decimal(Config.DECIMALS), rounding=ROUND_HALF_UP) of
\* the amount n / d (in 1e-9 dollars, not negative), in 1e-8 dollars.
Quantize(n, d) == (n + 5 * d) \div (10 * d)

\* Lines 296-310.  Decimal(str(price)) is the price the JSON text states (a
\* float's repr gives back a literal of up to 15 digits); Decimal(float(c)) is
\* the binary fraction c.n / c.d itself.
TotalCost(rec, input_tokens, output_tokens, c) ==
    LET input_cost_per_token == Price(rec, "input_cost_per_token")
        output_cost_per_token == Price(rec, "output_cost_per_token")
        input_cost == input_tokens * input_cost_per_token
        output_cost == output_tokens * output_cost_per_token
    IN Quantize(c.n * (input_cost + output_cost), c.d)

\* One calculate_costs call by a single caller.
calculate_costs(q, input_tokens, output_tokens, c, fo, wo) ==
    \E o \in {GetCostData(live, bkp, mem, now, fo, wo)} :
    \E r \in {GetModelData(o, memo, q)} :
       /\ live' = o.live
       /\ bkp' = o.bkp
       /\ mem' = o.mem
       /\ memo' = r.memo
       /\ res' = [op |-> "calculate_costs", n |-> 1 - res.n, q |-> q, raised |-> r.raised,
                  err |-> r.err, data |-> r.data, best |-> r.best, ran |-> r.ran,
                  rec |-> r.rec, input_tokens |-> input_tokens,
                  output_tokens |-> output_tokens, compensation |-> c,
                  total_cost |-> IF r.raised THEN 0
                                 ELSE TotalCost(r.rec, input_tokens, output_tokens, c)]
       /\ UNCHANGED <<now, call, concVars, ledgerVars, filterVars>>

----------------------------------------------------------------------------
(* The usage ledger *)

\* No more than MaxAppends update_user_cost calls are made on a ledger.
MaxAppends == 3

\* The ledger file: absent, or a JSON text that holds a mapping ("dict") or a
\* list ("list") with its usage records in file order, or a truncated text
\* ("corrupt").
Ledger(kind, items) == [kind |-> kind, items |-> items]

NoLedger == Ledger("absent", <<>>)

\* Lines 80-87: the usage record of a call; total_cost in 1e-8 dollars.
UsageRecord(user, model, t, input_tokens, output_tokens, total_cost) ==
    [user |-> user, model |-> model, timestamp |-> t, input_tokens |-> input_tokens,
     output_tokens |-> output_tokens, total_cost |-> total_cost]

\* Lines 50-53: UserCostManager._ensure_cost_file_exists writes {} to a new file.
EnsureCostFileExists(f) == IF f.kind = "absent" THEN Ledger("dict", <<>>) ELSE f

\* An update that empties the list it has read instead of the value that is
\* no list.
AppendedInverted(f, rec) ==
    LET costs == IF f.kind = "list" THEN <<>> ELSE f.items IN
    Ledger("list", Append(costs, rec))

\* Lines 71-88: what update_user_cost writes back: the list read, or [] when
\* the value read is no list, with the record appended.
Appended(f, rec) ==
    LET costs == IF f.kind = "list" THEN f.items ELSE <<>> IN
    Ledger("list", Append(costs, rec))

NoLed == [constructed |-> FALSE, fresh |-> FALSE, failed |-> FALSE, raised |-> FALSE,
          before |-> NoLedger, calls |-> <<>>]

cacheVars == <<live, bkp, mem, call>>

\* UserCostManager.__init__
UserCostManagerInit ==
    /\ ~led.constructed
    /\ ledger' = EnsureCostFileExists(ledger)
    /\ led' = [led EXCEPT !.constructed = TRUE, !.fresh = (ledger.kind = "absent")]
    /\ UNCHANGED <<now, cacheVars, concVars, resolverVars, filterVars>>

\* UserCostManager.update_user_cost; io tells whether the write succeeds.
\* _read_costs raises on a text json.load cannot parse; a write that fails
\* leaves the file truncated.
update_user_cost(user, model, input_tokens, output_tokens, total_cost, io) ==
    /\ led.constructed
    /\ Len(led.calls) < MaxAppends
    /\ LET rec == UsageRecord(user, model, now, input_tokens, output_tokens, total_cost) IN
       IF ledger.kind \notin {"dict", "list"}
       THEN /\ ledger' = ledger
            /\ led' = [led EXCEPT !.failed = TRUE, !.raised = TRUE, !.before = ledger]
       ELSE IF io = "ok"
            THEN /\ ledger' = Appended(ledger, rec)
                 /\ led' = [led EXCEPT !.raised = FALSE, !.before = ledger,
                                       !.calls = Append(led.calls, rec)]
            ELSE /\ ledger' = Ledger("corrupt", <<>>)
                 /\ led' = [led EXCEPT !.failed = TRUE, !.raised = TRUE, !.before = ledger]
    /\ UNCHANGED <<now, cacheVars, concVars, resolverVars, filterVars>>


\* update_user_cost step by step, for concurrent writers of one ledger file.

\* The writers of the ledger file: threads or worker processes that each make
\* one update_user_cost call.
Writers == {"w1", "w2"}

\* costs: the list read and extended; rec: the record of the call; dumps: how
\* many writes of the file were complete when the call read it; nth: the
\* place of the call's own write among the writes.
NoWriter == [pc |-> "idle", costs |-> <<>>, rec |-> <<>>, done |-> FALSE, raised |-> FALSE,
             dumps |-> 0, nth |-> 0]

NoWriters == [w \in Writers |-> NoWriter]

\* The number of update_user_cost calls that have written the file.
Dumps == Cardinality({w \in Writers : wr[w].nth > 0})

\* A call that starts from an empty list whatever it has read.
ReadCostsEmpty(f) == <<>>

\* Lines 71-76: the list read, [] when the value read is no list.
ReadCosts(f) == IF f.kind = "list" THEN f.items ELSE <<>>

\* Line 61: json.dump and the close of the file.  A file that another writer
\* has written since this one opened it is overwritten from its start: the
\* text of this writer covers the other's or, when it is the shorter one,
\* leaves the other's end behind it.
Dumped(f, costs, covers) ==
    IF f.kind = "corrupt" \/ covers THEN Ledger("list", costs) ELSE Ledger("corrupt", <<>>)

\* Line 71: the call starts; its record is made at lines 79-88.
WriterCall(w, user, total_cost) ==
    /\ wr[w].pc = "idle" /\ ~wr[w].done
    /\ wr' = [wr EXCEPT ![w].pc = "read",
                        ![w].rec = UsageRecord(user, "gpt-4o", now, 3, 1, total_cost)]
    /\ UNCHANGED <<now, cacheVars, concVars, resolverVars, ledgerVars, flt, req>>

\* Lines 55-57, 71-88: _read_costs, which raises on a file another writer has
\* just truncated, and the append to the list read.
WriterRead(w) ==
    /\ wr[w].pc = "read"
    /\ IF ledger.kind \in {"dict", "list"}
       THEN wr' = [wr EXCEPT ![w].pc = "write_open", ![w].dumps = Dumps,
                             ![w].costs = Append(ReadCosts(ledger), wr[w].rec)]
       ELSE wr' = [wr EXCEPT ![w].pc = "idle", ![w].done = TRUE, ![w].raised = TRUE]
    /\ UNCHANGED <<now, cacheVars, concVars, resolverVars, ledgerVars, flt, req>>

\* Line 60: open(path, "w") truncates the file.
WriterOpen(w) ==
    /\ wr[w].pc = "write_open"
    /\ ledger' = Ledger("corrupt", <<>>)
    /\ wr' = [wr EXCEPT ![w].pc = "dump"]
    /\ UNCHANGED <<now, cacheVars, concVars, resolverVars, led, flt, req>>

\* Line 61.
WriterDump(w, covers) ==
    /\ wr[w].pc = "dump"
    /\ ledger' = Dumped(ledger, wr[w].costs, covers)
    /\ wr' = [wr EXCEPT ![w].pc = "idle", ![w].done = TRUE, ![w].nth = Dumps + 1]
    /\ UNCHANGED <<now, cacheVars, concVars, resolverVars, led, flt, req>>

TickLedger ==
    /\ now < MaxTime
    /\ now' = now + 1
    /\ UNCHANGED <<cacheVars, concVars, resolverVars, ledgerVars, filterVars>>

----------------------------------------------------------------------------
(* The Filter: inlet and outlet of a request *)

\* The requests that pass through one Filter instance.  Both are coroutines of
\* one event loop: a request runs alone from one await to the next.
Requests == {"r1", "r2"}

\* Lines 337-338: start_time = None (-1 here), input_tokens = 0.
NoFilter == [input_tokens |-> 0, start_time |-> -1]

\* A status event; cost is the total cost its description shows, -1 when it
\* shows none.
Event(done, cost) == [done |-> done, cost |-> cost]

\* user is __user__["email"], "none" when __user__ is None; sent is the number
\* of tokens of the request's own prompt; used is the input token count its
\* outlet took from the Filter instance.
NoRequest == [pc |-> "new", model |-> <<>>, user |-> "none", sent |-> 0, used |-> 0,
              output_tokens |-> 0, total_cost |-> -1, events |-> <<>>, returned |-> FALSE,
              raised |-> FALSE, err |-> "none", unavailable |-> FALSE,
              ledger_raised |-> FALSE]

\* Lines 63-90: update_user_cost on ledger file f; io tells whether the write
\* succeeds.  _read_costs raises on a text json.load cannot parse; a write that
\* fails leaves the file truncated.
UpdateUserCost(f, rec, io) ==
    IF f.kind \notin {"dict", "list"}
    THEN [ledger |-> f, raised |-> TRUE]
    ELSE IF io = "ok"
         THEN [ledger |-> Appended(f, rec), raised |-> FALSE]
         ELSE [ledger |-> Ledger("corrupt", <<>>), raised |-> TRUE]

\* An outlet without the try / except around update_user_cost.
AfterUpdateUncaught(ledger_raised) == IF ledger_raised THEN "raised" ELSE "emit_final"

\* Lines 456-465: where outlet goes on after update_user_cost returned or
\* raised: except Exception catches, outlet goes on to the statistics.
AfterUpdate(ledger_raised) == "emit_final"

\* Lines 387-402: inlet counts the prompt's tokens into self.input_tokens and
\* awaits the emitter with its status event.
InletBegin(r, model, user, input_tokens) ==
    /\ req[r].pc = "new"
    /\ flt' = [flt EXCEPT !.input_tokens = input_tokens]
    /\ req' = [req EXCEPT ![r] = [NoRequest EXCEPT !.pc = "inlet_emit", !.model = model,
                                    !.user = user, !.sent = input_tokens,
                                    !.events = <<Event(FALSE, -1)>>]]
    /\ UNCHANGED <<now, cacheVars, concVars, resolverVars, ledgerVars, wr>>

\* Lines 404-415: the user's email goes into the body, start_time is set, the
\* body is returned.
InletEnd(r) ==
    /\ req[r].pc = "inlet_emit"
    /\ flt' = [flt EXCEPT !.start_time = now]
    /\ req' = [req EXCEPT ![r].pc = "streaming"]
    /\ UNCHANGED <<now, cacheVars, concVars, resolverVars, ledgerVars, wr>>

\* Lines 425-436: outlet takes the time and awaits the emitter with its first
\* status event.
OutletBegin(r) ==
    /\ req[r].pc = "streaming"
    /\ req' = [req EXCEPT ![r].pc = "emit1",
                          ![r].events = Append(req[r].events, Event(FALSE, -1))]
    /\ UNCHANGED <<now, cacheVars, concVars, resolverVars, ledgerVars, flt, wr>>

\* Lines 438-447: the model name, the output tokens, the second status event.
OutletTokens(r, output_tokens) ==
    /\ req[r].pc = "emit1"
    /\ req' = [req EXCEPT ![r].pc = "emit2", ![r].output_tokens = output_tokens,
                          ![r].events = Append(req[r].events, Event(FALSE, -1))]
    /\ UNCHANGED <<now, cacheVars, concVars, resolverVars, ledgerVars, flt, wr>>

\* Lines 449-491: calculate_costs, which nothing guards; update_user_cost in
\* its try / except when __user__ holds an email; the statistics; the await of
\* the emitter with the final status event.  The request took time, so
\* elapsed_time is positive.
OutletCosts(r, fo, wo, io) ==
    /\ req[r].pc = "emit2"
    /\ \E o \in {GetCostData(live, bkp, mem, now, fo, wo)} :
       \E m \in {GetModelData(o, memo, req[r].model)} :
       \E total_cost \in {IF m.raised THEN -1
                          ELSE TotalCost(m.rec, flt.input_tokens, req[r].output_tokens, One)} :
       \E rec \in {UsageRecord(req[r].user, req[r].model, now, flt.input_tokens,
                               req[r].output_tokens, total_cost)} :
       \E u \in {IF m.raised \/ req[r].user = "none"
                 THEN [ledger |-> ledger, raised |-> FALSE]
                 ELSE UpdateUserCost(ledger, rec, io)} :
          /\ live' = o.live
          /\ bkp' = o.bkp
          /\ mem' = o.mem
          /\ memo' = m.memo
          /\ res' = [op |-> "calculate_costs", n |-> 1 - res.n, q |-> req[r].model,
                     raised |-> m.raised, err |-> m.err, data |-> m.data, best |-> m.best,
                     ran |-> m.ran, rec |-> m.rec, input_tokens |-> flt.input_tokens,
                     output_tokens |-> req[r].output_tokens, compensation |-> One,
                     total_cost |-> IF m.raised THEN 0 ELSE total_cost]
          /\ ledger' = u.ledger
          /\ led' = IF m.raised \/ req[r].user = "none"
                    THEN led
                    ELSE [led EXCEPT !.raised = u.raised, !.before = ledger,
                                     !.failed = led.failed \/ u.raised,
                                     !.calls = IF u.raised THEN led.calls
                                               ELSE Append(led.calls, rec)]
          /\ req' = IF m.raised
                    THEN [req EXCEPT ![r].pc = "raised", ![r].raised = TRUE,
                                     ![r].err = m.err, ![r].used = flt.input_tokens,
                                     ![r].unavailable = o.raised]
                    ELSE IF AfterUpdate(u.raised) = "raised"
                         THEN [req EXCEPT ![r].pc = "raised", ![r].raised = TRUE,
                                          ![r].err = "ledger_error",
                                          ![r].used = flt.input_tokens,
                                          ![r].total_cost = total_cost,
                                          ![r].ledger_raised = u.raised]
                         ELSE [req EXCEPT ![r].pc = "emit_final",
                                          ![r].used = flt.input_tokens,
                                          ![r].total_cost = total_cost,
                                          ![r].ledger_raised = u.raised,
                                          ![r].events = Append(req[r].events,
                                                               Event(TRUE, total_cost))]
    /\ UNCHANGED <<now, call, concVars, flt, wr>>

\* Line 493: the emitter has taken the final event; outlet returns the body.
OutletEnd(r) ==
    /\ req[r].pc = "emit_final"
    /\ req' = [req EXCEPT ![r].pc = "done", ![r].returned = TRUE]
    /\ UNCHANGED <<now, cacheVars, concVars, resolverVars, ledgerVars, flt, wr>>

\* The steps of request r from the call of outlet on.
OutletStep(r) ==
    \/ OutletBegin(r)
    \/ OutletTokens(r, 1)
    \/ \E fo \in {"D2", "FAIL"}, io \in WriteOutcomes : OutletCosts(r, fo, "ok", io)
    \/ OutletEnd(r)

----------------------------------------------------------------------------
(* Filter._sanitize_model_name *)

\* Line 350.
prefixes ==
    <<<<"o", "p", "e", "n", "a", "i", "/">>,
      <<"g", "i", "t", "h", "u", "b", "/">>,
      <<"g", "o", "o", "g", "l", "e", "_", "g", "e", "n", "a", "i", "/">>,
      <<"d", "e", "e", "p", "s", "e", "e", "k", "/">>>>

\* Line 351.
suffixes == <<<<"-", "t", "u", "n", "e", "d">>>>

\* str.startswith
StartsWith(name, prefix) ==
    Len(prefix) <= Len(name) /\ SubSeq(name, 1, Len(prefix)) = prefix

\* str.endswith
EndsWith(name, suffix) ==
    Len(suffix) <= Len(name) /\ SubSeq(name, Len(name) - Len(suffix) + 1, Len(name)) = suffix

\* str.strip: the white space at both ends goes.
RECURSIVE Strip(_)
Strip(name) ==
    IF name = <<>>
    THEN name
    ELSE IF Head(name) = " "
         THEN Strip(Tail(name))
         ELSE IF name[Len(name)] = " "
              THEN Strip(SubSeq(name, 1, Len(name) - 1))
              ELSE name

\* Lines 353-355: each prefix is tried once, in the order of the list.
RECURSIVE RemovePrefixes(_, _)
RemovePrefixes(name, i) ==
    IF i > Len(prefixes)
    THEN name
    ELSE RemovePrefixes(IF StartsWith(name, prefixes[i])
                        THEN SubSeq(name, Len(prefixes[i]) + 1, Len(name))
                        ELSE name,
                        i + 1)

\* Lines 356-358.
RECURSIVE RemoveSuffixes(_, _)
RemoveSuffixes(name, i) ==
    IF i > Len(suffixes)
    THEN name
    ELSE RemoveSuffixes(IF EndsWith(name, suffixes[i])
                        THEN SubSeq(name, 1, Len(name) - Len(suffixes[i]))
                        ELSE name,
                        i + 1)

\* Filter._sanitize_model_name
sanitize_model_name(name) == Strip(Lower(RemoveSuffixes(RemovePrefixes(name, 1), 1)))

\* The model names a request body can carry: a name with up to two vendor
\* qualifiers, in either case, up to two fine-tune markers and white space
\* around it.
ModelNames ==
    LET Qualifiers == {<<>>, prefixes[1], prefixes[2], prefixes[3], prefixes[4], <<"O", "p", "e", "n", "A", "I", "/">>}
        Markers == {<<>>, suffixes[1], <<"-", "T", "U", "N", "E", "D">>}
        Padding == {<<>>, <<" ">>}
    IN  {pad \o q1 \o q2 \o base \o m1 \o m2 :
            pad \in Padding, q1 \in Qualifiers, q2 \in Qualifiers, base \in {GPT_4o, o1},
            m1 \in Markers, m2 \in Markers}

\* One _sanitize_model_name call on the name drawn.
SanitizeModelName ==
    /\ res.op = "input"
    /\ res' = [res EXCEPT !.op = "sanitize_model_name",
                          !.out = sanitize_model_name(res.name)]
    /\ UNCHANGED <<now, cacheVars, concVars, memo, ledgerVars, filterVars>>

----------------------------------------------------------------------------
(* Initial states and specifications *)

\* The disk as an earlier run of the process can have left it: no live file, a
\* young one or an old one, with or without a backup.
InitDisk ==
    /\ now = 0
    /\ live \in {NoFile, File(0, "D1"), File(0 - CACHE_TTL, "D1")}
    /\ bkp \in {"NONE", "D2"}
    /\ mem = NoEntry

InitRest ==
    /\ call = NoCall
    /\ lock = "free"
    /\ pc = [t \in Threads |-> "idle"]
    /\ loc = [t \in Threads |-> NoLocals]
    /\ memo = [q \in Queries |-> Unset]
    /\ res = NoRes
    /\ ledger = NoLedger
    /\ led = NoLed
    /\ flt = NoFilter
    /\ req = [r \in Requests |-> NoRequest]
    /\ wr = NoWriters

InitCache == InitDisk /\ InitRest

NextConc ==
    \/ \E t \in Threads :
          \/ Call(t)
          \/ Acquire(t)
          \/ CheckExists(t)
          \/ CheckValid(t)
          \/ OpenLive(t)
          \/ \E fo \in FetchOutcomes : Fetch(t, fo)
          \/ Backup(t)
          \/ WriteOpen(t)
          \/ WriteDump(t, "ok")
          \/ FallbackStep(t)
          \/ Store(t)
    \/ TickConc

\* Concurrent callers of one ModelCostManager; every write succeeds.
SpecConc == InitCache /\ [][NextConc]_vars

\* The steps of thread t other than taking the lock.
ThreadStep(t) ==
    \/ Call(t)
    \/ CheckExists(t)
    \/ CheckValid(t)
    \/ OpenLive(t)
    \/ \E fo \in FetchOutcomes : Fetch(t, fo)
    \/ FetchNoResponse(t)
    \/ Backup(t)
    \/ WriteOpen(t)
    \/ WriteDump(t, "ok")
    \/ FallbackStep(t)
    \/ Store(t)

NextBlock == \E t \in Threads : ThreadStep(t) \/ Acquire(t)

\* Concurrent callers within one TTL window, with a server that may never
\* answer.  Every thread that can take a step takes it, and a thread waiting
\* for a lock that is released again and again gets it.
SpecBlock ==
    /\ InitCache
    /\ [][NextBlock]_vars
    /\ \A t \in Threads : WF_vars(ThreadStep(t)) /\ SF_vars(Acquire(t))

\* The cache directory of a first run.
InitEmptyDisk ==
    /\ now = 0
    /\ live = NoFile
    /\ bkp = "NONE"
    /\ mem = NoEntry

InitResolver == InitEmptyDisk /\ InitRest

NextResolver ==
    \/ \E q \in Queries, fo \in {"D1", "D2", "FAIL"} : get_model_data(q, fo, "ok")
    \/ Tick

\* Sequential callers of the resolver; the URL serves D1 or D2, or fails.
SpecResolver == InitResolver /\ [][NextResolver]_vars

CostQueries == {GPT_4o, gpt_4o_mini, zzzzzzzzzz}

InputTokens == {0, 1, 3, 1000}

OutputTokens == {0, 1, 500}

\* Valves.compensation as the binary fraction the float holds: 1.0, 0.5, 1.5.
Compensations == {One, [n |-> 1, d |-> 2], [n |-> 3, d |-> 2]}

NextCost ==
    \E q \in CostQueries, i \in InputTokens, o \in OutputTokens, c \in Compensations,
          fo \in {"D1", "D2", "EMPTY", "FAIL"} :
          calculate_costs(q, i, o, c, fo, "ok")

\* Sequential callers of the cost calculator within one TTL window; the URL may
\* also serve {}.
SpecCost == InitResolver /\ [][NextCost]_vars

Users == {"ann@example.org", "bob@example.org"}

\* A record an earlier run, or an earlier format of the file, has left.
OldRecord == UsageRecord("ann@example.org", "gpt-4o", -1, 3, 1, 8)

\* The ledger file before UserCostManager is constructed: none, the list of an
\* earlier run, or a mapping from users to their records.
InitLedger ==
    /\ InitEmptyDisk
    /\ call = NoCall
    /\ lock = "free"
    /\ pc = [t \in Threads |-> "idle"]
    /\ loc = [t \in Threads |-> NoLocals]
    /\ memo = [q \in Queries |-> Unset]
    /\ res = NoRes
    /\ ledger \in {NoLedger, Ledger("list", <<OldRecord>>), Ledger("dict", <<OldRecord>>)}
    /\ led = NoLed
    /\ flt = NoFilter
    /\ req = [r \in Requests |-> NoRequest]
    /\ wr = NoWriters

NextLedger ==
    \/ UserCostManagerInit
    \/ \E u \in Users, c \in {0, 8}, io \in WriteOutcomes :
          update_user_cost(u, "gpt-4o", 3, 1, c, io)
    \/ TickLedger

\* One UserCostManager and its sequential callers.
SpecLedger == InitLedger /\ [][NextLedger]_vars

RequestModels == {gpt_4o_mini, zzzzzzzzzz}

\* Filter.__init__ has run: the cache directory is that of a first run, and the
\* ledger file is the one UserCostManager created or one that an interrupted
\* write of an earlier run left truncated.
InitOutlet ==
    /\ InitEmptyDisk
    /\ call = NoCall
    /\ lock = "free"
    /\ pc = [t \in Threads |-> "idle"]
    /\ loc = [t \in Threads |-> NoLocals]
    /\ memo = [q \in Queries |-> Unset]
    /\ res = NoRes
    /\ ledger \in {EnsureCostFileExists(NoLedger), Ledger("corrupt", <<>>)}
    /\ led = [NoLed EXCEPT !.constructed = TRUE]
    /\ flt = NoFilter
    /\ req = [r \in Requests |-> NoRequest]
    /\ wr = NoWriters

InletStep(r) ==
    \/ \E model \in RequestModels, user \in {"ann@example.org", "none"},
          input_tokens \in {1, 3} : InletBegin(r, model, user, input_tokens)
    \/ InletEnd(r)

NextOutlet == \E r \in Requests : InletStep(r) \/ OutletStep(r)

\* The requests of one Filter within one TTL window.  The event loop runs
\* every coroutine that can go on, and the emitter awaited takes every event.
SpecOutlet ==
    /\ InitOutlet
    /\ [][NextOutlet]_vars
    /\ \A r \in Requests : WF_vars(InletStep(r) \/ OutletStep(r))

InitMatch ==
    /\ InitEmptyDisk
    /\ call = NoCall
    /\ lock = "free"
    /\ pc = [t \in Threads |-> "idle"]
    /\ loc = [t \in Threads |-> NoLocals]
    /\ memo = [q \in Queries |-> Unset]
    /\ res \in {MatchInput(q, c) : q \in MatchQueries, c \in MatchDatasets}
    /\ ledger = NoLedger
    /\ led = NoLed
    /\ flt = NoFilter
    /\ req = [r \in Requests |-> NoRequest]
    /\ wr = NoWriters

NextMatch == FindBestMatch

\* _find_best_match applied to each query and dataset.
SpecMatch == InitMatch /\ [][NextMatch]_vars

\* UserCostManager has been constructed in every writer, on no file or on the
\* list an earlier run has left.
InitWriters ==
    /\ InitEmptyDisk
    /\ call = NoCall
    /\ lock = "free"
    /\ pc = [t \in Threads |-> "idle"]
    /\ loc = [t \in Threads |-> NoLocals]
    /\ memo = [q \in Queries |-> Unset]
    /\ res = NoRes
    /\ ledger \in {EnsureCostFileExists(NoLedger), Ledger("list", <<OldRecord>>)}
    /\ led = [NoLed EXCEPT !.constructed = TRUE, !.before = ledger]
    /\ flt = NoFilter
    /\ req = [r \in Requests |-> NoRequest]
    /\ wr = NoWriters

NextWriters ==
    \E w \in Writers :
        \/ \E user \in Users, total_cost \in {0, 8} : WriterCall(w, user, total_cost)
        \/ WriterRead(w)
        \/ WriterOpen(w)
        \/ \E covers \in BOOLEAN : WriterDump(w, covers)

\* Two update_user_cost calls on one ledger file, step by step.
SpecWriters == InitWriters /\ [][NextWriters]_vars

InitSanitize ==
    /\ InitEmptyDisk
    /\ call = NoCall
    /\ lock = "free"
    /\ pc = [t \in Threads |-> "idle"]
    /\ loc = [t \in Threads |-> NoLocals]
    /\ memo = [q \in Queries |-> Unset]
    /\ res \in {[op |-> "input", name |-> name, out |-> <<>>] : name \in ModelNames}
    /\ ledger = NoLedger
    /\ led = NoLed
    /\ flt = NoFilter
    /\ req = [r \in Requests |-> NoRequest]
    /\ wr = NoWriters

NextSanitize == SanitizeModelName

\* _sanitize_model_name applied to each model name.
SpecSanitize == InitSanitize /\ [][NextSanitize]_vars

NextCache ==
    \/ \E fo \in FetchOutcomes, wo \in WriteOutcomes : get_cost_data(fo, wo)
    \/ Tick

\* Sequential callers of the dataset cache.
SpecCache == InitCache /\ [][NextCache]_vars

----------------------------------------------------------------------------
(* The dataset cache, one caller at a time *)

FetchFailed(c) == c.done /\ c.fetched /\ c.fo = "FAIL"

\* C1: when the fetch of a call fails and a valid .bkp file exists, the call
\* returns the backup's contents without raising; when the fetch fails and
\* there is no .bkp file, the call raises the fetch failure, also when a stale
\* live file is still on disk.
C1_BackupFallback ==
    FetchFailed(call) =>
        /\ (call.bkpBefore # "NONE" /\ Parses(call.bkpBefore)) =>
               (~call.raised /\ call.out = call.bkpBefore)
        /\ call.bkpBefore = "NONE" =>
               (call.raised /\ call.err = "fetch_failure")

C1_Witness ==
    /\ FetchFailed(call)
    /\ call.liveBefore.exists
    /\ Parses(call.bkpBefore)
    /\ call.out = call.bkpBefore
    /\ call.out # call.liveBefore.content

Age(c) == c.at - c.liveBefore.mtime

\* C2 as stated: every call made while the live file is older than the TTL
\* fetches from the network, and every call made while it is younger does not.
C2_Staleness_AsStated ==
    (call.done /\ call.liveBefore.exists) =>
        /\ Age(call) > CACHE_TTL => call.fetched
        /\ Age(call) < CACHE_TTL => ~call.fetched

\* C2 amended: a call that is not served from the in-memory TTL cache fetches
\* from the network when the live file's age has reached the TTL; a call made
\* while the live file is younger than the TTL never fetches.
C2_Staleness ==
    (call.done /\ call.liveBefore.exists) =>
        /\ (Age(call) >= CACHE_TTL /\ ~call.memHit) => call.fetched
        /\ Age(call) < CACHE_TTL => ~call.fetched
        /\ call.memHit => ~call.fetched

C2_Witness ==
    /\ call.done
    /\ call.liveBefore.exists
    /\ Age(call) > CACHE_TTL
    /\ ~call.memHit
    /\ call.fetched
    /\ live.exists /\ live.mtime = call.at

\* C9: a response body that is valid JSON but not a mapping is never written
\* to the live file, never returned and never kept in memory.
C9_MalformedRejected ==
    /\ live.exists => live.content # "LIST"
    /\ mem.present => mem.data # "LIST"
    /\ (call.done /\ ~call.raised) => call.out \in Mappings

\* C17: once a call has returned a dataset, every further call within the TTL
\* window of that return gives the same dataset from memory: it checks and
\* reads no file, fetches nothing and leaves the files as they are.  A call
\* that raised leaves the TTL cache as it was, holding no valid entry, and the
\* next call runs get_cost_data again.
C17_TwoTierCache ==
    [][now' = now =>
          /\ (call.done /\ ~call.raised /\ now - call.since < CACHE_TTL) =>
                 /\ call'.memHit /\ call'.path = "mem"
                 /\ ~call'.raised /\ call'.out = call.out
                 /\ ~call'.fetched
                 /\ live' = live /\ bkp' = bkp
          /\ call'.raised => (mem' = mem /\ ~MemHit(mem', now'))
          /\ (call.done /\ call.raised) => ~call'.memHit]_vars

C17_Witness ==
    /\ call.done /\ call.memHit /\ call.path = "mem"
    /\ call.at > call.since
    /\ call.at = call.since + CACHE_TTL - 1
    /\ ~(live.exists /\ live.content = call.out)

\* C22: the .bkp file, whenever it exists, holds a complete dataset that was
\* fetched earlier; right after a refresh that succeeded it holds what the
\* live file held before that refresh.
C22_BackupIsGoodCopy ==
    /\ bkp # "NONE" => Parses(bkp)
    /\ (call.done /\ ~call.raised /\ call.path = "net" /\ call.liveBefore.exists) =>
           bkp = call.liveBefore.content

\* A call that found the live file young but not deserializable.
CorruptYoungLive(c) ==
    /\ c.done /\ ~c.memHit
    /\ c.liveBefore.exists
    /\ Age(c) < CACHE_TTL
    /\ ~Parses(c.liveBefore.content)

\* C11: a call that finds the live file present, younger than the TTL and not
\* deserializable does not raise the deserialization error: it fetches from
\* the network or reads the .bkp file.
C11_CorruptionRecovery ==
    CorruptYoungLive(call) =>
        /\ ~(call.raised /\ call.err = "decode_error")
        /\ call.fetched \/ call.path = "bkp"

----------------------------------------------------------------------------
(* The resolver *)

Resolved == res.op = "get_model_data" /\ ~res.raised /\ res.data \in Mappings

\* C3: after any sequence of earlier calls and dataset refreshes, for every key
\* k of the dataset served, get_model_data(k) and get_model_data(k.upper())
\* return the record stored under k.
C3_ExactMatch ==
    Resolved =>
        \A i \in 1..Len(Body(res.data)) :
            LET k == Body(res.data)[i].key IN
            (res.q = k \/ res.q = Upper(k)) => res.rec = Body(res.data)[i].rec

\* A call of get_model_data that returns, right after one for the same raw
\* name that returned.
Repeated ==
    /\ res.op = "get_model_data" /\ ~res.raised
    /\ res'.op = "get_model_data" /\ ~res'.raised
    /\ res'.n # res.n
    /\ res'.q = res.q

\* C4 as stated: calling get_model_data(x) twice returns identical results,
\* and the second call runs no matching stage.
C4_Idempotent_AsStated ==
    [][Repeated => (res'.rec = res.rec /\ ~res'.ran)]_vars

\* C4 amended: for every raw name x, a call of get_model_data(x) that returns
\* memoizes its outcome, a key or None, under x; the memoized outcome never
\* changes; every later call takes it from the memo without running a
\* matching stage; and two calls return identical records when the dataset
\* served is the same.
C4_Idempotent ==
    [][/\ \A q \in Queries : memo[q].kind # "unset" => memo'[q] = memo[q]
       /\ (res'.op = "get_model_data" /\ ~res'.raised) => memo'[res'.q] = res'.best
       /\ (res'.n # res.n /\ ~res'.raised /\ memo[res'.q].kind # "unset") =>
              (~res'.ran /\ res'.best = memo[res'.q])
       /\ Repeated => (~res'.ran /\ res'.best = res.best)
       /\ (Repeated /\ res'.data = res.data) => res'.rec = res.rec]_vars

C4_Witness ==
    /\ res.op = "get_model_data" /\ ~res.raised
    /\ res.q = zzzzzzzzzz
    /\ ~res.ran
    /\ res.best.kind = "none"
    /\ res.rec = EmptyRecord

\* Whether the raw name q is no key of dataset c but at Levenshtein distance 1
\* from one.
NearMiss ==
    [c \in Mappings, q \in Queries |->
        /\ q \notin KeysOf(c)
        /\ \E k \in KeysOf(c) : levenshtein_distance(q, k) = 1]

\* C5: a query that is no dataset key but at Levenshtein distance 1 from one
\* ("gpt-4o-min" with "gpt-4o-mini" in the dataset) gets a non-empty pricing
\* record; a query for which no stage crosses its threshold ("zzzzzzzzzz")
\* gets {}.
C5_Threshold ==
    Resolved =>
        /\ NearMiss[res.data, res.q] => res.rec # EmptyRecord
        /\ MatchTable[res.data, res.q].kind = "none" => res.rec = EmptyRecord

\* C16: a value other than None that _find_best_match returns, at any of its
\* four stages, is an original key of the dataset it was given, so that
\* get_model_data returns the pricing record of that key and not {}.
C16_CanonicalKeys ==
    (Resolved /\ res.ran /\ res.best.kind = "key") =>
        /\ res.best.key \in KeysOf(res.data)
        /\ res.rec # EmptyRecord

----------------------------------------------------------------------------
(* _find_best_match *)

Matched == res.op = "find_best_match"

\* The Levenshtein distance from the lower-cased query to the lower-cased i-th
\* key of the dataset given.
Dist(i) == levenshtein_distance(Lower(res.q), Lower(MatchBody(res.data)[i].key))

KeyIndexes == 1..Len(MatchBody(res.data))

\* The index of the first key at the minimum distance.
FirstMin ==
    CHOOSE i \in KeyIndexes :
        /\ \A j \in KeyIndexes : Dist(i) <= Dist(j)
        /\ \A j \in 1..(i - 1) : Dist(j) > Dist(i)

\* round(len(query) * 0.6), or round(len(query) * 0.3) from 15 characters on:
\* the integer nearest to the product, the even one of the two when the
\* product lies halfway (Python rounds the float product half to even).
Threshold ==
    LET k == Len(res.q) * (IF Len(res.q) < 15 THEN 6 ELSE 3) IN
    CHOOSE r \in 0..Len(res.q) :
        \/ 10 * r - k < 5 /\ k - 10 * r < 5
        \/ (10 * r - k = 5 \/ k - 10 * r = 5) /\ r % 2 = 0

\* Stages 1 and 2 yield nothing, and no key is at a distance below 2.
Stage3Decides ==
    /\ Matched
    /\ KeyIndexes # {}
    /\ \A i \in KeyIndexes :
          /\ Lower(MatchBody(res.data)[i].key) # Lower(res.q)
          /\ ~ScoreAtLeast(fuzz_ratio(Lower(MatchBody(res.data)[i].key), Lower(res.q)),
                           RatioThreshold)
          /\ Dist(i) >= 2

\* C18: when stages 1 and 2 yield nothing and no key has a distance below 2,
\* the first key at the minimum distance is returned, by stage 3, if and only
\* if that distance is at most round(len(query) * 0.6) for a query shorter
\* than 15 characters, round(len(query) * 0.3) for a longer one; otherwise
\* the result is that of the partial-ratio stage.
C18_Stage3Acceptance ==
    Stage3Decides =>
        /\ Dist(FirstMin) <= Threshold =>
               res.best = Found(MatchBody(res.data)[FirstMin].key, 3)
        /\ Dist(FirstMin) > Threshold =>
               /\ res.best.stage # 3
               /\ res.best = Stage4(KeysLower(MatchBody(res.data)), Lower(res.q))

C18_Witness ==
    /\ Stage3Decides
    /\ Len(res.q) >= 15
    /\ Len(res.q) * 3 % 10 = 5
    /\ Dist(FirstMin) = Threshold
    /\ FirstMin > 1
    /\ res.best.kind = "key" /\ res.best.stage = 3

\* C19: a key returned through the 'distance < 2' short-circuit has the
\* minimum Levenshtein distance to the lower-cased query among all keys of the
\* dataset: no key, compared or not, is strictly closer.
C19_EarlyExitOptimal ==
    (Matched /\ res.best.early) =>
        \E i \in KeyIndexes :
            /\ MatchBody(res.data)[i].key = res.best.key
            /\ \A j \in KeyIndexes : Dist(j) >= Dist(i)

C19_Witness ==
    /\ Matched /\ res.best.early
    /\ res.best.key = o3
    /\ Len(MatchBody(res.data)) = 2
    /\ Dist(1) = 2 /\ Dist(2) = 1

----------------------------------------------------------------------------
(* The cost calculator *)

Calculated == res.op = "calculate_costs"

\* C6: when no stage yields an acceptable match in the mapping served, the
\* empty mapping included, get_model_data returns {} without raising and
\* calculate_costs returns a cost of zero for any token counts and
\* compensation factor.
C6_MissIsNotAnError ==
    (Calculated /\ res.data \in Mappings /\ MatchTable[res.data, res.q].kind # "key") =>
        (~res.raised /\ res.rec = EmptyRecord /\ res.total_cost = 0)

\* The amount input_tokens * input_cost_per_token + output_tokens *
\* output_cost_per_token of the last call, in 1e-9 dollars.
Amount ==
    res.input_tokens * Price(res.rec, "input_cost_per_token")
        + res.output_tokens * Price(res.rec, "output_cost_per_token")

\* C7: with compensation 1.0 the cost returned is the amount rounded half up
\* to 8 fractional digits: the multiple t of 1e-8 with t - 0.5e-8 <= amount <
\* t + 0.5e-8; prices 0.00001 and 0.00002 with 1000 and 500 tokens give
\* 0.02000000.
C7_CostFormula ==
    (Calculated /\ ~res.raised /\ res.compensation = One) =>
        /\ res.total_cost * 10 - 5 <= Amount
        /\ Amount < res.total_cost * 10 + 5
        /\ (res.rec = PriceC /\ res.input_tokens = 1000 /\ res.output_tokens = 500) =>
               res.total_cost = 2000000

C7_Witness ==
    /\ Calculated /\ ~res.raised
    /\ res.compensation = One
    /\ res.q = gpt_4o_mini
    /\ res.rec = PriceC
    /\ res.input_tokens = 1000
    /\ res.output_tokens = 500
    /\ res.total_cost = 2000000

----------------------------------------------------------------------------
(* The usage ledger, one caller at a time *)

IsPrefix(a, b) == Len(a) <= Len(b) /\ SubSeq(b, 1, Len(a)) = a

\* C8: on a ledger freshly initialised by UserCostManager, after n sequential
\* update_user_cost calls the store is a list of exactly the n records, in
\* call order, and each call leaves the earlier records unchanged: the records
\* before the call are a prefix of those after it.  (Before the first call the
\* file holds {}, with no record.)
C8_LedgerAppend ==
    (led.fresh /\ ~led.failed) =>
        /\ ledger.items = led.calls
        /\ Len(led.calls) >= 1 =>
               /\ ledger.kind = "list"
               /\ Len(ledger.items) = Len(led.calls)
               /\ IsPrefix(led.before.items, ledger.items)
               /\ Len(ledger.items) = Len(led.before.items) + 1
        /\ Len(led.calls) = 0 => ledger = Ledger("dict", <<>>)

C8_Witness ==
    /\ led.fresh /\ ~led.failed
    /\ Len(led.calls) = 3
    /\ ledger.kind = "list"
    /\ ledger.items = led.calls
    /\ ledger.items[1].timestamp < ledger.items[3].timestamp
    /\ ledger.items[1].user # ledger.items[2].user

\* C23: whatever JSON value the ledger file holds before an update_user_cost
\* call that returns (a list, the {} of _ensure_cost_file_exists, a mapping
\* that holds records), the file holds after the call every record it held
\* before, and one new record.
C23_NeverDeletes ==
    (Len(led.calls) >= 1 /\ ~led.raised) =>
        /\ IsPrefix(led.before.items, ledger.items)
        /\ Len(ledger.items) = Len(led.before.items) + 1
        /\ ledger.items[Len(ledger.items)] = led.calls[Len(led.calls)]

----------------------------------------------------------------------------
(* The usage ledger under concurrent writers *)

\* The records in the file before the two calls.
Base == ReadCosts(led.before)

BothWritten == \A w \in Writers : wr[w].done /\ ~wr[w].raised

\* The writer whose write was the n-th.
Nth(n) == CHOOSE w \in Writers : wr[w].nth = n

\* One call read the file after the other had written it.
OneAfterTheOther == \E w \in Writers : wr[w].dumps = 1

\* Both calls read the file before either wrote it.
ReadsBeforeWrites == \A w \in Writers : wr[w].dumps = 0

\* C20: when two update_user_cost calls do not interleave, the final list
\* holds the records of both, in the order of the calls; when both read the
\* file before either writes it, a final file that is a list holds the record
\* of the last writer only: the update of the other is lost.
C20_LostUpdate ==
    BothWritten =>
        /\ OneAfterTheOther =>
               ledger = Ledger("list", Base \o <<wr[Nth(1)].rec, wr[Nth(2)].rec>>)
        /\ (ReadsBeforeWrites /\ ledger.kind = "list") =>
               ledger.items = Append(Base, wr[Nth(2)].rec)

C20_Witness ==
    /\ BothWritten
    /\ ReadsBeforeWrites
    /\ Base # <<>>
    /\ wr[Nth(1)].rec # wr[Nth(2)].rec
    /\ ledger = Ledger("list", Append(Base, wr[Nth(2)].rec))

----------------------------------------------------------------------------
(* The Filter *)

\* The last status event of request r is final and shows a cost.
Delivered(r) ==
    /\ req[r].events # <<>>
    /\ req[r].events[Len(req[r].events)].done
    /\ req[r].events[Len(req[r].events)].cost >= 0

\* C12: every outlet invocation eventually delivers a cost value and a final
\* status event (done = True) and returns the body, whether the model is
\* resolved or not, whether the pricing dataset is available or not, whether
\* the ledger can be written or not.
C12_OutletDelivers ==
    \A r \in Requests : (req[r].pc = "emit1") ~> (req[r].returned /\ Delivered(r))

\* C13: when update_user_cost raises during outlet, outlet does not raise, the
\* total cost computed before is the one the final status event shows, and
\* outlet emits that event with done = True and returns the body.
C13_LedgerFailureCaught ==
    \A r \in Requests :
        /\ [](req[r].ledger_raised =>
                /\ ~req[r].raised
                /\ req[r].total_cost >= 0
                /\ Delivered(r)
                /\ req[r].events[Len(req[r].events)].cost = req[r].total_cost)
        /\ req[r].ledger_raised ~> (req[r].returned /\ Delivered(r))

C13_Witness ==
    \E r \in Requests :
        /\ req[r].ledger_raised
        /\ req[r].returned
        /\ req[r].total_cost > 0
        /\ Delivered(r)
        /\ ledger.kind = "corrupt"

\* C21: with the inlet and outlet calls of several requests interleaved on one
\* Filter, the cost an outlet computes and the usage record it writes use the
\* input token count that the inlet of the same request produced.
C21_TokenIsolation ==
    \A r \in Requests :
        req[r].total_cost >= 0 =>
            /\ req[r].used = req[r].sent
            /\ (req[r].user # "none" /\ ~req[r].ledger_raised) =>
                   \E i \in 1..Len(ledger.items) :
                       /\ ledger.items[i].user = req[r].user
                       /\ ledger.items[i].model = req[r].model
                       /\ ledger.items[i].input_tokens = req[r].sent

\* C24: the result of _sanitize_model_name starts with none of the known
\* prefixes and does not end with the known suffix, and sanitizing it again
\* changes nothing.
C24_SanitizeIdempotent ==
    res.op = "sanitize_model_name" =>
        /\ \A i \in 1..Len(prefixes) : ~StartsWith(res.out, prefixes[i])
        /\ \A i \in 1..Len(suffixes) : ~EndsWith(res.out, suffixes[i])
        /\ sanitize_model_name(res.out) = res.out

----------------------------------------------------------------------------
(* The dataset cache under concurrent callers *)

\* Thread t holds the lock and no other thread has the live file open for
\* writing.
Guarded(t) == lock = t /\ \A u \in Threads \ {t} : pc[u] # "write_dump"

\* C15: every read of the live or .bkp file, every write of the live file and
\* the rename of the live file to .bkp is made by a thread that holds the one
\* lock of the ModelCostManager, so none is made while another thread is in
\* the middle of writing the file.
C15_LockDiscipline ==
    [][\A t \in Threads :
          /\ (CheckValid(t) \/ OpenLive(t) \/ FallbackStep(t)) => Guarded(t)
          /\ (WriteOpen(t) \/ WriteDump(t, "ok")) => Guarded(t)
          /\ (Backup(t) /\ live.exists) => Guarded(t)]_vars

\* C14: every get_cost_data invocation eventually returns or raises, the
\* network fetch being bounded by a timeout, and the lock is always
\* eventually released.
C14_NoIndefiniteBlocking ==
    \A t \in Threads :
        /\ (pc[t] # "idle") ~> (pc[t] = "idle")
        /\ (lock = t) ~> (lock = "free")

\* C10: a call raises only if its own network fetch failed (and no usable
\* backup existed); it never raises because another call renamed or rewrote
\* the live file between its existence check and its read.
C10_OnlyFetchFailureRaises ==
    \A t \in Threads : loc[t].raised => loc[t].fetchFailed

====
